---------------------------- MODULE Spec2Model ----------------------------
(***************************************************************************)
(* Offline-first inventory ledger and sync engine of inventory-sys.        *)
(*                                                                         *)
(*   App component (handlers)     src/public/service-worker.js 200-445     *)
(*   sync queue and store         src/utils/db.ts                          *)
(*   useOfflineSync hook          src/hooks/useOfflineSync.ts              *)
(*   request modals               src/unnamed/part_002, part_004           *)
(*                                                                         *)
(* Records keep the fields the handlers read or write.  Item cost fields,  *)
(* status and lastUpdated, and the transactions' staffName and timestamp   *)
(* are carried through unchanged by every handler and are left out.        *)
(***************************************************************************)
EXTENDS Integers, Sequences, FiniteSets, TLC

VARIABLES
    items,          \* App state: Item[]
    transactions,   \* App state: Transaction[]
    notifications,  \* App state: Notification[] (titles, newest first)
    syncQueue,      \* IndexedDB store 'syncQueue', in key order (key = index)
    now,            \* Date.now()
    isOnline,       \* useOfflineSync state
    isSyncing,      \* useOfflineSync state
    pendingCount,   \* useOfflineSync state
    cyc,            \* the running invocations of syncNow
    lastCall,       \* the last user operation and how it ended (observation only)
    sw,             \* service worker: sync tag registered, TRIGGER_SYNC messages posted
    memCategories,  \* App state: Category[] while categories are managed
    dbCategories,   \* IndexedDB store 'categories': its records
    persists,       \* the calls of persistCategories, in the order issued
    loaded          \* what a page load read from the store 'categories'

vars == <<items, transactions, notifications, syncQueue, now,
          isOnline, isSyncing, pendingCount, cyc, lastCall,
          sw, memCategories, dbCategories, persists, loaded>>

storeVars == <<memCategories, dbCategories, persists, loaded>>

ledgerVars == <<items, transactions, notifications, now>>
hookVars   == <<isOnline, isSyncing, pendingCount, cyc>>

---------------------------------------------------------------------------
(* Bounds of the model *)

MaxOps    == 4      \* handler calls that act (each adds one notification)
MaxTx     == 2      \* transactions that may be requested
MaxQty    == 2      \* largest quantity a request asks for
MaxQueue  == 3      \* queue entries the sync engine is run on
MaxCycles == 2      \* invocations of syncNow that may overlap
MaxPersists == 3    \* snapshot persists that may be issued
MaxMessages == 1    \* TRIGGER_SYNC messages in flight

---------------------------------------------------------------------------
(* Values *)

Undefined == "undefined"       \* an absent optional field

Reasons == {"", "Hub Capacity Reached"}

\* Math.floor(Math.random() * 1000), narrowed to two values
RandomValues == {0, 1}

ItemId(t, r) == [pfx |-> "it", t |-> t, r |-> r]
TxId(pfx, t) == [pfx |-> pfx, t |-> t]

\* a transaction id no request handler produces (the clock starts at 1)
UnknownTxId == TxId("TX", 0)

initialWarehouses ==
    << [id |-> "w1", prefix |-> "MNL"],
       [id |-> "w2", prefix |-> "CEB"] >>

initialCategories ==
    << [id |-> "c1", code |-> "ELC"] >>

initialItems ==
    << [id |-> ItemId(0, 1), name |-> "Drill", warehouseId |-> "w1",
        categoryId |-> "c1", quantity |-> 2, barcode |-> <<"MNL", "ELC", 1>>],
       [id |-> ItemId(0, 2), name |-> "Saw", warehouseId |-> "w2",
        categoryId |-> "c1", quantity |-> 1, barcode |-> <<"CEB", "ELC", 2>>] >>

warehouses == initialWarehouses
categories == initialCategories

---------------------------------------------------------------------------
(* Array helpers *)

Range(s) == {s[i] : i \in DOMAIN s}

\* Array.prototype.find over the indices that satisfy the predicate: the
\* first of them, 0 when there is none
FindIndex(matching) ==
    IF matching = {} THEN 0
    ELSE CHOOSE i \in matching : \A j \in matching : i <= j

---------------------------------------------------------------------------
(* Sync queue: src/utils/db.ts *)

\* the store assigns the key: autoIncrement, nothing is ever deleted
enqueueSyncAction(queue, type, payload) ==
    Append(queue, [id |-> Len(queue) + 1, type |-> type, payload |-> payload,
                   status |-> "PENDING", retries |-> 0])

\* the outcome of a queue write: stored, or rejected by the store
Enqueued(queue, type, payload, stored) ==
    IF stored THEN enqueueSyncAction(queue, type, payload) ELSE queue

IsPending(a) == a.status = "PENDING"

RECURSIVE Reverse(_)
Reverse(s) == IF s = <<>> THEN <<>> ELSE Append(Reverse(Tail(s)), Head(s))

\* mutant: the oldest PENDING action is left out when there are several
getPendingAfterOldest(queue) ==
    LET pending == SelectSeq(queue, IsPending)
    IN  IF Len(pending) > 1 THEN Tail(pending) ELSE pending

\* mutant: the newest action first
getPendingNewestFirst(queue) == Reverse(SelectSeq(queue, IsPending))

\* dbGetAll returns the store in key order; the filter keeps that order
getPendingSyncActions(queue) == SelectSeq(queue, IsPending)

---------------------------------------------------------------------------
(* Inventory ledger: the handlers of App *)

addNotification(ns, title) == <<title>> \o ns

NewTransaction(pfx, type, item, target, qty) ==
    [id |-> TxId(pfx, now), type |-> type, itemId |-> item.id,
     warehouseId |-> item.warehouseId, targetWarehouseId |-> target,
     quantity |-> qty, status |-> "PENDING", rejectionReason |-> Undefined]

\* mutant: the request is applied to the item at once (optimistic update)
RequestEffectOptimistic(newTx, title, stored) ==
    /\ transactions' = Append(transactions, newTx)
    /\ notifications' = addNotification(notifications, title)
    /\ syncQueue' = Enqueued(syncQueue, newTx.type, newTx, stored)
    /\ items' = [k \in DOMAIN items |->
                   IF items[k].id = newTx.itemId
                   THEN [items[k] EXCEPT !.quantity = @ - newTx.quantity]
                   ELSE items[k]]
    /\ UNCHANGED now
    /\ UNCHANGED hookVars

\* what the three request handlers do with the transaction they built
RequestEffect(newTx, title, stored) ==
    /\ transactions' = Append(transactions, newTx)
    /\ notifications' = addNotification(notifications, title)
    /\ syncQueue' = Enqueued(syncQueue, newTx.type, newTx, stored)
    /\ UNCHANGED <<items, now>>
    /\ UNCHANGED hookVars

handleStockInRequest(item, qty, stored) ==
    RequestEffect(NewTransaction("TX", "STOCK_IN", item, Undefined, qty),
                  "Approval Required", stored)

handleStockOutRequest(item, qty, stored) ==
    RequestEffect(NewTransaction("TX", "STOCK_OUT", item, Undefined, qty),
                  "Approval Required", stored)

handleTransferRequest(item, targetWhId, qty, stored) ==
    RequestEffect(NewTransaction("TR", "TRANSFER", item, targetWhId, qty),
                  "Transfer Pending", stored)

\* mutant: the stock-out check against the item's quantity is missing
StockActionValidAnyQuantity(item, inbound, qty) == qty > 0

\* StockActionModal.validateAndConfirm: the checks before onConfirm(qty)
StockActionValid(item, inbound, qty) ==
    /\ qty > 0
    /\ inbound \/ qty <= item.quantity

\* TransferItemModal.validateAndConfirm; the select offers otherWarehouses
TransferValid(item, targetWhId, qty) ==
    /\ targetWhId # ""
    /\ qty > 0
    /\ qty <= item.quantity

OtherWarehouses(item) ==
    {w.id : w \in {x \in Range(warehouses) : x.id # item.warehouseId}}

\* the values the destination select can hold: '' until one is chosen
TargetOptions(item) == OtherWarehouses(item) \cup {""}

\* a modal's validateAndConfirm returned early: nothing but its error text changes
Refused ==
    UNCHANGED <<items, transactions, notifications, syncQueue, now,
                isOnline, isSyncing, pendingCount, cyc>>

\* StockActionModal.validateAndConfirm with onConfirm as App wires it
StockActionConfirm(item, inbound, qty, stored) ==
    IF StockActionValid(item, inbound, qty)
    THEN IF inbound THEN handleStockInRequest(item, qty, stored)
                    ELSE handleStockOutRequest(item, qty, stored)
    ELSE Refused

\* TransferItemModal.validateAndConfirm with onConfirm as App wires it
TransferConfirm(item, targetWhId, qty, stored) ==
    IF TransferValid(item, targetWhId, qty)
    THEN handleTransferRequest(item, targetWhId, qty, stored)
    ELSE Refused

\* `${prefix || 'WH'}-${code || 'GEN'}-${newId.split('-')[1]}`
Barcode(targetWhId, categoryId, newId) ==
    LET w == FindIndex({k \in DOMAIN warehouses : warehouses[k].id = targetWhId})
        c == FindIndex({k \in DOMAIN categories : categories[k].id = categoryId})
    IN  << IF w = 0 THEN "WH" ELSE warehouses[w].prefix,
           IF c = 0 THEN "GEN" ELSE categories[c].code,
           newId.t >>

\* mutant: the target item is looked up by warehouse alone
ApproveItemsByWarehouse(currItems, tx, sourceItem, rnd) ==
    LET updated == [k \in DOMAIN currItems |->
                      IF currItems[k].id = tx.itemId
                      THEN [currItems[k] EXCEPT !.quantity = @ - tx.quantity]
                      ELSE currItems[k]]
        existing == FindIndex({k \in DOMAIN updated : updated[k].warehouseId = tx.targetWarehouseId})
    IN  IF tx.type = "TRANSFER" /\ existing # 0
        THEN [k \in DOMAIN updated |->
                IF updated[k].id = updated[existing].id
                THEN [updated[k] EXCEPT !.quantity = @ + tx.quantity]
                ELSE updated[k]]
        ELSE updated

\* mutant: the quantity is not taken from the source item
ApproveItemsSourceKept(currItems, tx, sourceItem, rnd) ==
    LET InTarget(i) == /\ i.warehouseId = tx.targetWarehouseId
                       /\ i.categoryId = sourceItem.categoryId
                       /\ i.name = sourceItem.name
        existing == FindIndex({k \in DOMAIN currItems : InTarget(currItems[k])})
        newId == ItemId(now, rnd)
    IN  IF tx.type = "TRANSFER" /\ tx.targetWarehouseId # Undefined
        THEN IF existing # 0
             THEN [k \in DOMAIN currItems |->
                     IF currItems[k].id = currItems[existing].id
                     THEN [currItems[k] EXCEPT !.quantity = @ + tx.quantity]
                     ELSE currItems[k]]
             ELSE Append(currItems,
                         [sourceItem EXCEPT
                             !.id = newId,
                             !.warehouseId = tx.targetWarehouseId,
                             !.quantity = tx.quantity,
                             !.barcode = Barcode(tx.targetWarehouseId,
                                                 sourceItem.categoryId, newId)])
        ELSE currItems

\* the setItems updater of handleApproveTransaction
ApproveItems(currItems, tx, sourceItem, rnd) ==
    LET updated == [k \in DOMAIN currItems |->
                      IF currItems[k].id = tx.itemId
                      THEN [currItems[k] EXCEPT !.quantity = @ - tx.quantity]
                      ELSE currItems[k]]
        InTarget(i) == /\ i.warehouseId = tx.targetWarehouseId
                       /\ i.categoryId = sourceItem.categoryId
                       /\ i.name = sourceItem.name
        existing == FindIndex({k \in DOMAIN updated : InTarget(updated[k])})
        newId == ItemId(now, rnd)
    IN  IF tx.type = "TRANSFER" /\ tx.targetWarehouseId # Undefined
        THEN IF existing # 0
             THEN [k \in DOMAIN updated |->
                     IF updated[k].id = updated[existing].id
                     THEN [updated[k] EXCEPT !.quantity = @ + tx.quantity]
                     ELSE updated[k]]
             ELSE Append(updated,
                         [sourceItem EXCEPT
                             !.id = newId,
                             !.warehouseId = tx.targetWarehouseId,
                             !.quantity = tx.quantity,
                             !.barcode = Barcode(tx.targetWarehouseId,
                                                 sourceItem.categoryId, newId)])
        ELSE updated

\* does the mapper of handleApproveTransaction act on this transaction?
ApproveActsOn(tx, txId) ==
    /\ tx.id = txId
    /\ FindIndex({k \in DOMAIN items : items[k].id = tx.itemId}) # 0

\* the transactions handleApproveTransaction(txId) acts on, in array order
ApproveTargets(txId) ==
    SelectSeq(transactions, LAMBDA tx : ApproveActsOn(tx, txId))

\* the queued setItems updaters, applied in order
RECURSIVE ApproveAll(_, _, _)
ApproveAll(currItems, txs, rnd) ==
    IF txs = <<>> THEN currItems
    ELSE LET tx == Head(txs)
             sourceItem == items[FindIndex({k \in DOMAIN items : items[k].id = tx.itemId})]
         IN  ApproveAll(ApproveItems(currItems, tx, sourceItem, rnd), Tail(txs), rnd)

RECURSIVE Repeat(_, _, _, _)
Repeat(n, queue, type, payload) ==
    IF n = 0 THEN queue
    ELSE Repeat(n - 1, enqueueSyncAction(queue, type, payload), type, payload)

RECURSIVE Notify(_, _, _)
Notify(n, ns, title) ==
    IF n = 0 THEN ns ELSE Notify(n - 1, addNotification(ns, title), title)

handleApproveTransaction(txId, rnd, stored) ==
    LET targets == ApproveTargets(txId)
    IN  /\ Len(notifications) + Len(targets) <= MaxOps
        /\ transactions' = [k \in DOMAIN transactions |->
                              IF ApproveActsOn(transactions[k], txId)
                              THEN [transactions[k] EXCEPT !.status = "APPROVED"]
                              ELSE transactions[k]]
        /\ items' = ApproveAll(items, targets, rnd)
        /\ notifications' = Notify(Len(targets), notifications, "Transaction Approved")
        /\ syncQueue' = IF stored
                        THEN Repeat(Len(targets), syncQueue, "APPROVE", [txId |-> txId])
                        ELSE syncQueue
        /\ UNCHANGED now
        /\ UNCHANGED hookVars

\* mutant: the notification and the REJECT entry are made before the map,
\* whether or not a transaction has the id
handleRejectTransactionUnmatched(txId, reason, stored) ==
    /\ Len(notifications) < MaxOps
    /\ transactions' = [k \in DOMAIN transactions |->
                          IF transactions[k].id = txId
                          THEN [transactions[k] EXCEPT
                                   !.status = "REJECTED",
                                   !.rejectionReason = reason]
                          ELSE transactions[k]]
    /\ notifications' = addNotification(notifications, "Transaction Rejected")
    /\ syncQueue' = Enqueued(syncQueue, "REJECT",
                             [txId |-> txId, reason |-> reason], stored)
    /\ UNCHANGED <<items, now>>
    /\ UNCHANGED hookVars

\* mutant: the transaction is marked REJECTED but the reason is not stored
handleRejectTransactionReasonDropped(txId, reason, stored) ==
    LET n == Len(SelectSeq(transactions, LAMBDA tx : tx.id = txId))
    IN  /\ Len(notifications) + n <= MaxOps
        /\ transactions' = [k \in DOMAIN transactions |->
                              IF transactions[k].id = txId
                              THEN [transactions[k] EXCEPT !.status = "REJECTED"]
                              ELSE transactions[k]]
        /\ notifications' = Notify(n, notifications, "Transaction Rejected")
        /\ syncQueue' = IF stored
                        THEN Repeat(n, syncQueue, "REJECT",
                                    [txId |-> txId, reason |-> reason])
                        ELSE syncQueue
        /\ UNCHANGED <<items, now>>
        /\ UNCHANGED hookVars

handleRejectTransaction(txId, reason, stored) ==
    LET n == Len(SelectSeq(transactions, LAMBDA tx : tx.id = txId))
    IN  /\ Len(notifications) + n <= MaxOps
        /\ transactions' = [k \in DOMAIN transactions |->
                              IF transactions[k].id = txId
                              THEN [transactions[k] EXCEPT
                                       !.status = "REJECTED",
                                       !.rejectionReason = reason]
                              ELSE transactions[k]]
        /\ notifications' = Notify(n, notifications, "Transaction Rejected")
        /\ syncQueue' = IF stored
                        THEN Repeat(n, syncQueue, "REJECT",
                                    [txId |-> txId, reason |-> reason])
                        ELSE syncQueue
        /\ UNCHANGED <<items, now>>
        /\ UNCHANGED hookVars

\* mutant: the dialog passes on whatever reason it holds
handleFinalRejectAnyReason(txId, reason, stored) ==
    handleRejectTransaction(txId, reason, stored)

\* Dashboard.handleFinalReject: if (!finalReason) return; onReject(id, finalReason)
handleFinalReject(txId, reason, stored) ==
    IF reason = ""
    THEN UNCHANGED <<items, transactions, notifications, syncQueue, now,
                     isOnline, isSyncing, pendingCount, cyc>>
    ELSE handleRejectTransaction(txId, reason, stored)

\* Date.now() has been read into an id at its present value
ClockUsed ==
    \/ \E k \in DOMAIN transactions : transactions[k].id.t = now
    \/ \E k \in DOMAIN items : items[k].id.t = now

\* the millisecond clock advances; ids are only compared for equality, so
\* a value no id holds need not be passed over twice
Tick ==
    /\ ClockUsed
    /\ now' = now + 1
    /\ UNCHANGED <<items, transactions, notifications, syncQueue>>
    /\ UNCHANGED hookVars

---------------------------------------------------------------------------
(* Sync orchestrator: useOfflineSync *)

Cycles == 1..MaxCycles

\* alone: no other cycle has run while this one did (observation only)
IdleCycle == [pc |-> "idle", batch |-> <<>>, i |-> 0, got |-> <<>>, cbOk |-> FALSE,
              alone |-> TRUE]

Running(c) == cyc[c].pc # "idle"
Replaying(c) == cyc[c].pc = "replaying"

\* the slot a new invocation of syncNow takes
FreeSlot == CHOOSE c \in Cycles : ~Running(c) /\ \A d \in 1..(c - 1) : Running(d)

Ids(batch) == [k \in DOMAIN batch |-> batch[k].id]

\* a cycle starts: the cycles already running are no longer alone
Joined(c, cycle) ==
    [d \in Cycles |-> IF d = c THEN cycle
                      ELSE IF Running(d) THEN [cyc[d] EXCEPT !.alone = FALSE]
                      ELSE cyc[d]]

\* syncNow up to the call of onSync; read = FALSE: the queue read fails
syncNow(read) ==
    LET pending == getPendingSyncActions(syncQueue)
        c == FreeSlot
    IN  IF ~read
        THEN UNCHANGED <<pendingCount, isSyncing, cyc>>
        ELSE /\ pendingCount' = Len(pending)
             /\ IF Len(pending) = 0 \* or no onSync callback: App always passes one
                THEN UNCHANGED <<isSyncing, cyc>>
                ELSE /\ isSyncing' = TRUE
                     /\ cyc' = Joined(c, [pc |-> "replaying", batch |-> pending,
                                          i |-> 0, got |-> <<>>, cbOk |-> FALSE,
                                          alone |-> \A d \in Cycles : ~Running(d)])

\* window 'online' event
handleOnline(read) ==
    /\ ~isOnline
    /\ \E c \in Cycles : ~Running(c)
    /\ isOnline' = TRUE
    /\ syncNow(read)
    /\ UNCHANGED syncQueue
    /\ UNCHANGED ledgerVars

\* window 'offline' event
handleOffline ==
    /\ isOnline
    /\ isOnline' = FALSE
    /\ UNCHANGED <<isSyncing, pendingCount, cyc, syncQueue>>
    /\ UNCHANGED ledgerVars

\* the cycle leaves syncNow: finally { setIsSyncing(false) }
Finish(c, count) ==
    /\ cyc' = [cyc EXCEPT ![c] = IdleCycle]
    /\ isSyncing' = FALSE
    /\ pendingCount' = count

\* await onSyncRef.current(pending) settles: resolved (ok) or rejected
onSyncSettles(c, ok) ==
    /\ Replaying(c)
    /\ cyc' = [cyc EXCEPT ![c].pc = IF ok THEN "syncedGet" ELSE "failedGet",
                          ![c].i = 1,
                          ![c].cbOk = ok]
    /\ UNCHANGED <<isOnline, isSyncing, pendingCount, syncQueue>>
    /\ UNCHANGED ledgerVars

\* dbGet(STORES.syncQueue, id)
dbGet(queue, id) == IF id \in DOMAIN queue THEN <<queue[id]>> ELSE <<>>

\* the loop of syncNow moves to the next action of the batch, or ends
NextOf(c, getPc, count) ==
    IF cyc[c].i < Len(cyc[c].batch)
    THEN /\ cyc' = [cyc EXCEPT ![c].pc = getPc, ![c].i = @ + 1, ![c].got = <<>>]
         /\ UNCHANGED <<isSyncing, pendingCount>>
    ELSE Finish(c, count)

\* markSyncActionSynced, first half: const action = await dbGet(...)
markSyncActionSyncedGet(c) ==
    /\ cyc[c].pc = "syncedGet"
    /\ LET action == dbGet(syncQueue, cyc[c].batch[cyc[c].i].id)
       IN  IF action = <<>>
           THEN NextOf(c, "syncedGet", 0)
           ELSE /\ cyc' = [cyc EXCEPT ![c].pc = "syncedPut", ![c].got = action]
                /\ UNCHANGED <<isSyncing, pendingCount>>
    /\ UNCHANGED <<isOnline, syncQueue>>
    /\ UNCHANGED ledgerVars

\* mutant: the record is written back as it was read
SyncedRecordUnmarked(action) == action

\* the record markSyncActionSynced writes
SyncedRecord(action) == [action EXCEPT !.status = "SYNCED"]

\* mutant: the write marks every action that is PENDING by now
markSyncActionSyncedPutAllPending(c, stored) ==
    /\ cyc[c].pc = "syncedPut"
    /\ IF stored
       THEN /\ syncQueue' = [k \in DOMAIN syncQueue |->
                                IF IsPending(syncQueue[k])
                                THEN SyncedRecord(syncQueue[k])
                                ELSE syncQueue[k]]
            /\ NextOf(c, "syncedGet", 0)
       ELSE /\ cyc' = [cyc EXCEPT ![c].pc = "failedGet", ![c].i = 1, ![c].got = <<>>]
            /\ UNCHANGED <<syncQueue, isSyncing, pendingCount>>
    /\ UNCHANGED isOnline
    /\ UNCHANGED ledgerVars

\* markSyncActionSynced, second half: await dbPut(...); a failed write throws
\* into the catch block of syncNow
markSyncActionSyncedPut(c, stored) ==
    /\ cyc[c].pc = "syncedPut"
    /\ IF stored
       THEN /\ syncQueue' = [syncQueue EXCEPT ![cyc[c].got[1].id] =
                                                 SyncedRecord(cyc[c].got[1])]
            /\ NextOf(c, "syncedGet", 0)
       ELSE /\ cyc' = [cyc EXCEPT ![c].pc = "failedGet", ![c].i = 1, ![c].got = <<>>]
            /\ UNCHANGED <<syncQueue, isSyncing, pendingCount>>
    /\ UNCHANGED isOnline
    /\ UNCHANGED ledgerVars

\* markSyncActionFailed, first half
markSyncActionFailedGet(c) ==
    /\ cyc[c].pc = "failedGet"
    /\ LET action == dbGet(syncQueue, cyc[c].batch[cyc[c].i].id)
       IN  IF action = <<>>
           THEN NextOf(c, "failedGet", pendingCount)
           ELSE /\ cyc' = [cyc EXCEPT ![c].pc = "failedPut", ![c].got = action]
                /\ UNCHANGED <<isSyncing, pendingCount>>
    /\ UNCHANGED <<isOnline, syncQueue>>
    /\ UNCHANGED ledgerVars

\* the record markSyncActionFailed writes
FailedRecord(action) == [action EXCEPT !.status = "FAILED", !.retries = @ + 1]

\* markSyncActionFailed, second half; a failed write leaves syncNow by the
\* exception, through finally
markSyncActionFailedPut(c, stored) ==
    /\ cyc[c].pc = "failedPut"
    /\ IF stored
       THEN /\ syncQueue' = [syncQueue EXCEPT ![cyc[c].got[1].id] =
                                                 FailedRecord(cyc[c].got[1])]
            /\ NextOf(c, "failedGet", pendingCount)
       ELSE /\ UNCHANGED syncQueue
            /\ Finish(c, pendingCount)
    /\ UNCHANGED isOnline
    /\ UNCHANGED ledgerVars

---------------------------------------------------------------------------
(* Specifications *)

\* lastCall while no observer follows the calls
Unwatched == [op |-> "off", arg |-> "off", result |-> "off"]

InitWith(call) ==
    /\ lastCall = call
    /\ sw = [tag |-> FALSE, messages |-> 0]
    /\ memCategories = initialCategories
    /\ dbCategories = Range(initialCategories)   \* seeded on the first run
    /\ persists = <<>>
    /\ loaded = <<>>
    /\ items = initialItems
    /\ transactions = <<>>
    /\ notifications = <<>>
    /\ syncQueue = <<>>
    /\ now = 1
    /\ isOnline = TRUE       \* navigator.onLine; 'offline' events follow
    /\ isSyncing = FALSE
    /\ pendingCount = 0
    /\ cyc = [c \in Cycles |-> IdleCycle]

Init == InitWith(Unwatched)

\* the same start with an observer that notes every call and how it ended
WatchInit == InitWith([op |-> "none", arg |-> "none", result |-> "none"])

Reliable == {TRUE}      \* every store operation succeeds
Unreliable == BOOLEAN   \* a store operation may fail (StorageFailure)

\* how a call ended, as an observer of the step sees it
Called(op, arg, result) ==
    lastCall' = IF lastCall = Unwatched THEN lastCall
                ELSE [op |-> op, arg |-> arg, result |-> result]
Ended(valid) == IF valid THEN "applied" ELSE "refused"
Matched(n) == IF n = 0 THEN "no-match" ELSE "applied"

\* room for one more transaction and its notification
RequestRoom == Len(transactions) < MaxTx /\ Len(notifications) < MaxOps

\* the user confirms a stock-in in StockActionModal
StockInRequest(outcomes) ==
    \E k \in DOMAIN items, qty \in 0..MaxQty, stored \in outcomes :
        /\ StockActionValid(items[k], TRUE, qty) => RequestRoom
        /\ StockActionConfirm(items[k], TRUE, qty, stored)
        /\ Called("stockIn", Undefined, Ended(StockActionValid(items[k], TRUE, qty)))
        /\ UNCHANGED <<sw, storeVars>>

\* the user confirms a stock-out in StockActionModal
StockOutRequest(outcomes) ==
    \E k \in DOMAIN items, qty \in 0..MaxQty, stored \in outcomes :
        /\ StockActionValid(items[k], FALSE, qty) => RequestRoom
        /\ StockActionConfirm(items[k], FALSE, qty, stored)
        /\ Called("stockOut", Undefined, Ended(StockActionValid(items[k], FALSE, qty)))
        /\ UNCHANGED <<sw, storeVars>>

\* the user confirms a transfer in TransferItemModal
TransferRequest(outcomes) ==
    \E k \in DOMAIN items, qty \in 0..MaxQty, stored \in outcomes :
        \E targetWhId \in TargetOptions(items[k]) :
           /\ TransferValid(items[k], targetWhId, qty) => RequestRoom
           /\ TransferConfirm(items[k], targetWhId, qty, stored)
           /\ Called("transfer", Undefined, Ended(TransferValid(items[k], targetWhId, qty)))
           /\ UNCHANGED <<sw, storeVars>>

TxIds == {transactions[k].id : k \in DOMAIN transactions} \cup {UnknownTxId}

\* an approver presses Approve
Approve(outcomes) ==
    \E txId \in TxIds, rnd \in RandomValues, stored \in outcomes :
        /\ handleApproveTransaction(txId, rnd, stored)
        /\ Called("approve", txId, Matched(Len(ApproveTargets(txId))))
        /\ UNCHANGED <<sw, storeVars>>

\* an approver rejects through the Dashboard dialog
Reject(outcomes) ==
    \E txId \in TxIds, reason \in Reasons, stored \in outcomes :
        /\ handleFinalReject(txId, reason, stored)
        /\ Called("reject", txId,
                  IF reason = "" THEN "refused"
                  ELSE Matched(Len(SelectSeq(transactions, LAMBDA tx : tx.id = txId))))
        /\ UNCHANGED <<sw, storeVars>>

\* the millisecond clock advances between calls
ClockTick == Tick /\ UNCHANGED <<lastCall, sw, storeVars>>

LedgerNext(outcomes) ==
    \/ StockInRequest(outcomes)
    \/ StockOutRequest(outcomes)
    \/ TransferRequest(outcomes)
    \/ Approve(outcomes)
    \/ Reject(outcomes)
    \/ ClockTick

\* what the steps of useOfflineSync leave alone beside the ledger
syncFrame == <<lastCall, sw, storeVars>>

SyncNext(outcomes) ==
    \/ \E read \in outcomes : handleOnline(read) /\ UNCHANGED syncFrame
    \/ handleOffline /\ UNCHANGED syncFrame
    \/ \E c \in Cycles, ok \in BOOLEAN : onSyncSettles(c, ok) /\ UNCHANGED syncFrame
    \/ \E c \in Cycles : markSyncActionSyncedGet(c) /\ UNCHANGED syncFrame
    \/ \E c \in Cycles, stored \in outcomes :
          markSyncActionSyncedPut(c, stored) /\ UNCHANGED syncFrame
    \/ \E c \in Cycles : markSyncActionFailedGet(c) /\ UNCHANGED syncFrame
    \/ \E c \in Cycles, stored \in outcomes :
          markSyncActionFailedPut(c, stored) /\ UNCHANGED syncFrame

Next == LedgerNext(Reliable) \/ SyncNext(Reliable)

Spec == Init /\ [][Next]_vars

\* the ledger alone, on a reliable store
LedgerSpec == Init /\ [][LedgerNext(Reliable)]_vars

\* the ledger alone, every call observed
LedgerWatchSpec == WatchInit /\ [][LedgerNext(Reliable)]_vars

\* the ledger alone, on a store whose writes may fail
LedgerFailSpec == Init /\ [][LedgerNext(Unreliable)]_vars

\* a stock-in request of one unit of the first item: what the sync engine
\* sees of the ledger is the queue entries its handlers append
QueueRequest(outcomes) ==
    /\ Len(syncQueue) < MaxQueue
    /\ Len(notifications) < MaxOps
    /\ \E stored \in outcomes :
          /\ StockActionConfirm(items[1], TRUE, 1, stored)
          /\ Called("stockIn", Undefined, "applied")
          /\ UNCHANGED <<sw, storeVars>>

\* the sync engine with the request handlers feeding its queue
SyncSpec == Init /\ [][QueueRequest(Reliable) \/ SyncNext(Reliable)]_vars

\* the sync engine on a store whose reads and writes may fail
SyncFailSpec == Init /\ [][QueueRequest(Unreliable) \/ SyncNext(Unreliable)]_vars

\* the sync engine under the scheduling of the event loop: a cycle whose
\* next step is ready takes it
CycleStep ==
    /\ UNCHANGED syncFrame
    /\ \/ \E c \in Cycles, ok \in BOOLEAN : onSyncSettles(c, ok)
       \/ \E c \in Cycles : markSyncActionSyncedGet(c)
       \/ \E c \in Cycles : markSyncActionSyncedPut(c, TRUE)
       \/ \E c \in Cycles : markSyncActionFailedGet(c)
       \/ \E c \in Cycles : markSyncActionFailedPut(c, TRUE)

FairSyncSpec == SyncSpec /\ WF_vars(CycleStep)

---------------------------------------------------------------------------
(* Background sync: service worker and registerServiceWorker *)

\* what the background-sync relay leaves alone: it has no listener in the app
wakeFrame == <<items, transactions, notifications, syncQueue, now,
               isOnline, isSyncing, pendingCount, cyc, lastCall, storeVars>>

\* registerServiceWorker, 'offline' listener:
\* await registration.sync.register('sync-pending-actions')
registerSyncTag ==
    /\ ~isOnline
    /\ ~sw.tag
    /\ sw' = [sw EXCEPT !.tag = TRUE]
    /\ UNCHANGED wakeFrame

\* service worker 'sync' event with the registered tag, fired by the browser
\* once the connection is back: postMessage({type: 'TRIGGER_SYNC'}) to the client
swSync ==
    /\ sw.tag
    /\ isOnline
    /\ sw.messages < MaxMessages
    /\ sw' = [tag |-> FALSE, messages |-> sw.messages + 1]
    /\ UNCHANGED wakeFrame

\* registerServiceWorker, 'message' listener: TRIGGER_SYNC is relayed as the
\* window event 'sw-trigger-sync'.  useOfflineSync listens to 'online' and
\* 'offline' only, so dispatching the event runs no handler
onTriggerSync ==
    /\ sw.messages > 0
    /\ sw' = [sw EXCEPT !.messages = @ - 1]
    /\ UNCHANGED wakeFrame

\* the sync engine with the background-sync relay
WakeSpec ==
    Init /\ [][\/ QueueRequest(Reliable)
               \/ SyncNext(Reliable)
               \/ registerSyncTag
               \/ swSync
               \/ onTriggerSync]_vars

---------------------------------------------------------------------------
(* Durable store: the snapshot persists of a collection, on 'categories' *)

\* ids handleAdd can give a category: `cat-${Date.now()}`
NewCategoryIds == {"cat-1", "cat-2"}

\* ids already given: every change of the collection was issued as a persist
UsedCategoryIds ==
    {c.id : c \in Range(memCategories)}
        \cup UNION {{c.id : c \in Range(persists[p].snap)} : p \in DOMAIN persists}

\* what the steps on the categories collection leave alone
persistFrame == <<items, transactions, notifications, syncQueue, now,
                  isOnline, isSyncing, pendingCount, cyc, lastCall, sw>>

\* the effect on [categories]: persistCategories(categories) is called, not awaited
persistCategories(snapshot) ==
    persists' = Append(persists, [snap |-> snapshot, pc |-> "clear"])

\* CategoryManagement.handleAdd (no parent chosen), then the persist effect
handleAdd(id, code) ==
    /\ Len(persists) < MaxPersists
    /\ id \notin UsedCategoryIds
    /\ memCategories' = Append(memCategories, [id |-> id, code |-> code])
    /\ persistCategories(memCategories')
    /\ UNCHANGED <<dbCategories, loaded>>
    /\ UNCHANGED persistFrame

\* CategoryManagement.executeDelete of a listed category, then the persist effect
executeDelete(id) ==
    /\ Len(persists) < MaxPersists
    /\ \E c \in Range(memCategories) : c.id = id
    /\ memCategories' = SelectSeq(memCategories, LAMBDA c : c.id # id)
    /\ persistCategories(memCategories')
    /\ UNCHANGED <<dbCategories, loaded>>
    /\ UNCHANGED persistFrame

\* store.put(v) for every value, in one transaction: put replaces by key
dbPutMany(store, values) ==
    {r \in store : \A v \in Range(values) : v.id # r.id} \cup Range(values)

\* persistCategories, first half: await dbClear(STORES.categories).  The
\* store runs the readwrite transactions in the order they were created:
\* the clear of a persist follows the clears of the persists issued before
persistClear(p) ==
    /\ persists[p].pc = "clear"
    /\ \A q \in 1..(p - 1) : persists[q].pc # "clear"
    /\ dbCategories' = {}
    /\ persists' = [persists EXCEPT ![p].pc = "put"]
    /\ UNCHANGED <<memCategories, loaded>>
    /\ UNCHANGED persistFrame

\* persistCategories, second half: await dbPutMany(STORES.categories, snap),
\* a transaction created when the clear has completed
persistPut(p) ==
    /\ persists[p].pc = "put"
    /\ \A q \in 1..(p - 1) : persists[q].pc = "done"
    /\ dbCategories' = dbPutMany(dbCategories, persists[p].snap)
    /\ persists' = [persists EXCEPT ![p].pc = "done"]
    /\ UNCHANGED <<memCategories, loaded>>
    /\ UNCHANGED persistFrame

\* loadPersistedState of a page load: dbGetAll(STORES.categories), a
\* readonly transaction between the readwrite ones
loadPersistedState ==
    /\ loaded' = <<dbCategories>>
    /\ UNCHANGED <<memCategories, dbCategories, persists>>
    /\ UNCHANGED persistFrame

\* the keys of the store 'categories' in the order IndexedDB keeps them
KeyOrder == <<"c1", "cat-1", "cat-2">>

\* dbGetAll(STORES.categories): every record, in key order
dbGetAll(store) ==
    LET keys == SelectSeq(KeyOrder, LAMBDA id : \E r \in store : r.id = id)
    IN  [k \in DOMAIN keys |-> CHOOSE r \in store : r.id = keys[k]]

\* the load-on-mount effect's choice for items, warehouses and categories:
\* persisted.length > 0 ? persisted : initial
PersistedOrSeed(persisted, initial) ==
    IF Len(persisted) > 0 THEN persisted ELSE initial

\* the app is started again once the persists of the last run have
\* completed: the load-on-mount effect sets the state from the store, and
\* setIsDbReady(true) runs the persist effect on what was loaded
mountLoad ==
    /\ \A p \in DOMAIN persists : persists[p].pc = "done"
    /\ Len(persists) < MaxPersists
    /\ memCategories' = PersistedOrSeed(dbGetAll(dbCategories), initialCategories)
    /\ persistCategories(memCategories')
    /\ loaded' = <<dbCategories>>
    /\ UNCHANGED dbCategories
    /\ UNCHANGED persistFrame

PersistNext ==
    \/ \E id \in NewCategoryIds : handleAdd(id, "NEW")
    \/ \E id \in UsedCategoryIds : executeDelete(id)
    \/ \E p \in DOMAIN persists : persistClear(p)
    \/ \E p \in DOMAIN persists : persistPut(p)
    \/ loadPersistedState
    \/ mountLoad

\* category management with its persists, and page loads reading the store
PersistSpec == Init /\ [][PersistNext]_vars

---------------------------------------------------------------------------
(* Claims *)

RequestTypes == {"STOCK_IN", "STOCK_OUT", "TRANSFER"}
Terminal == {"APPROVED", "REJECTED"}

\* only STOCK_OUT and TRANSFER have been requested, and approve(txId) acts
\* on one PENDING transaction that asks for more than its source item holds
Overdraws(txId) ==
    /\ \A k \in DOMAIN transactions : transactions[k].type # "STOCK_IN"
    /\ Len(ApproveTargets(txId)) = 1
    /\ LET tx == ApproveTargets(txId)[1]
           src == items[FindIndex({k \in DOMAIN items : items[k].id = tx.itemId})]
       IN  /\ tx.status = "PENDING"
           /\ tx.type \in {"STOCK_OUT", "TRANSFER"}
           /\ tx.quantity > src.quantity

\* C1: stock never goes negative: approving a STOCK_OUT or TRANSFER whose
\* quantity exceeds the source item's current quantity leaves the items
\* unchanged, and every Item.quantity stays >= 0.
C1_NoNegativeStock ==
    [][\A txId \in TxIds, rnd \in RandomValues :
          (Overdraws(txId) /\ handleApproveTransaction(txId, rnd, TRUE))
              => /\ items' = items
                 /\ \A k \in DOMAIN items' : items'[k].quantity >= 0]_vars

\* an approve(txId) call has already been applied to every transaction
\* the call acts on
AlreadyApproved(txId) ==
    /\ ApproveTargets(txId) # <<>>
    /\ \A k \in DOMAIN transactions :
          ApproveActsOn(transactions[k], txId) => transactions[k].status = "APPROVED"

\* C2: a second approve(txId) after a first one changes neither the items
\* nor the transactions.
C2_ApproveIdempotent ==
    [][\A txId \in TxIds, rnd \in RandomValues :
          (AlreadyApproved(txId) /\ handleApproveTransaction(txId, rnd, TRUE))
              => UNCHANGED <<items, transactions>>]_vars

\* C3: a transaction that is APPROVED or REJECTED is never changed again.
C3_TerminalImmutable ==
    [][\A k \in DOMAIN transactions :
          transactions[k].status \in Terminal => transactions'[k] = transactions[k]]_vars

\* the transaction as its request handler built it
AsRequested(tx) == [tx EXCEPT !.status = "PENDING", !.rejectionReason = Undefined]

RequestEntries == SelectSeq(syncQueue, LAMBDA a : a.type \in RequestTypes)

\* C4: after any request handler call, also one whose queue write failed,
\* the transactions and the queue entries carrying them correspond one to
\* one: a transaction and its SyncAction both exist or neither does.
C4_RequestAtomic ==
    /\ Len(RequestEntries) = Len(transactions)
    /\ \A k \in DOMAIN transactions :
          /\ RequestEntries[k].payload = AsRequested(transactions[k])
          /\ RequestEntries[k].type = transactions[k].type

RECURSIVE Ascending(_)
Ascending(S) ==
    IF S = {} THEN <<>>
    ELSE LET m == CHOOSE x \in S : \A y \in S : x <= y
         IN  <<m>> \o Ascending(S \ {m})

\* the keys of the PENDING actions, oldest first (keys grow with each enqueue)
PendingInEnqueueOrder ==
    Ascending({k \in DOMAIN syncQueue : syncQueue[k].status = "PENDING"})

Started(c) == ~Running(c) /\ cyc'[c].pc = "replaying"
Finished(c) == Running(c) /\ cyc'[c].pc = "idle"

\* C5: the batch a cycle passes to the replay callback is the PENDING
\* actions in the order they were enqueued.
C5_FifoReplay ==
    [][\A c \in Cycles :
          Started(c) => Ids(cyc'[c].batch) = PendingInEnqueueOrder]_vars

C5_Witness ==
    \E c \in Cycles : Replaying(c) /\ Ids(cyc[c].batch) = <<1, 2, 3>>

\* C6: offline with n >= 1 PENDING actions and no cycle running, one
\* online transition starts exactly one cycle, whose callback receives all
\* n actions; when that callback has succeeded and the cycle ends, all n
\* actions are SYNCED and pendingCount is 0.
C6_ReconnectReplay ==
    [][/\ ( /\ ~isOnline /\ isOnline'
            /\ \A c \in Cycles : ~Running(c)
            /\ PendingInEnqueueOrder # <<>> )
          => \E c \in Cycles :
                /\ Started(c)
                /\ Ids(cyc'[c].batch) = PendingInEnqueueOrder
                /\ \A d \in Cycles \ {c} : cyc'[d].pc = "idle"
       /\ \A c \in Cycles :
            (Finished(c) /\ cyc[c].cbOk /\ cyc[c].alone)
              => /\ \A k \in DOMAIN cyc[c].batch :
                      syncQueue'[cyc[c].batch[k].id].status = "SYNCED"
                 /\ pendingCount' = 0]_vars

C6_Witness ==
    /\ Len(syncQueue) >= 2
    /\ \A k \in DOMAIN syncQueue : syncQueue[k].status = "SYNCED"
    /\ \A c \in Cycles : ~Running(c)
    /\ isOnline /\ pendingCount = 0 /\ ~isSyncing

\* C7: when the callback has failed and the cycle ends, every action of
\* the batch is FAILED with retries one higher, and the next drain returns
\* every one of them.
C7_FailedRedrained ==
    [][\A c \in Cycles :
          (Finished(c) /\ ~cyc[c].cbOk /\ cyc[c].alone)
            => \A k \in DOMAIN cyc[c].batch :
                  LET a == cyc[c].batch[k]
                  IN  /\ syncQueue'[a.id].status = "FAILED"
                      /\ syncQueue'[a.id].retries = a.retries + 1
                      /\ a.id \in Range(Ids(getPendingSyncActions(syncQueue')))]_vars

InQueue(k) == k \in DOMAIN syncQueue
IsSynced(k) == InQueue(k) /\ syncQueue[k].status = "SYNCED"

CallbackFails == \E c \in Cycles : Replaying(c) /\ cyc'[c].pc = "failedGet"

\* C8: if online transitions keep occurring and, from some point on, no
\* callback fails, every enqueued action is eventually SYNCED.
C8_EventuallySynced ==
    ( /\ []<><<~isOnline /\ isOnline'>>_vars
      /\ <>[][~CallbackFails]_vars )
    => \A k \in 1..MaxQueue : [](InQueue(k) => <>IsSynced(k))

\* C9: at most one cycle is in the Replaying state at any time.
C9_SingleReplay ==
    Cardinality({c \in Cycles : Replaying(c)}) <= 1

\* the items of warehouse wh with the category and name of item src
Matching(its, wh, src) ==
    {k \in DOMAIN its : /\ its[k].warehouseId = wh
                        /\ its[k].categoryId = src.categoryId
                        /\ its[k].name = src.name}

PrefixOf(wh) == (CHOOSE w \in Range(warehouses) : w.id = wh).prefix
CodeOf(cat) == (CHOOSE c \in Range(categories) : c.id = cat).code

\* approve(txId) acts on exactly one transaction, a TRANSFER
ApprovesOneTransfer(txId) ==
    /\ Len(ApproveTargets(txId)) = 1
    /\ ApproveTargets(txId)[1].type = "TRANSFER"

\* C10: approving a TRANSFER of q units of item X to W2 creates exactly one
\* item in W2, with quantity q and barcode W2.prefix-C.code-suffix, when W2
\* holds no item with X's category and name; when W2 holds one, it adds q
\* to that item and creates none.
C10_TransferMergeOrCreate ==
    [][\A txId \in TxIds, rnd \in RandomValues :
          (ApprovesOneTransfer(txId) /\ handleApproveTransaction(txId, rnd, TRUE))
          => LET tx == ApproveTargets(txId)[1]
                 X == items[FindIndex({k \in DOMAIN items : items[k].id = tx.itemId})]
                 W2 == tx.targetWarehouseId
                 there == Matching(items, W2, X)
                 last == Len(items')
             IN  IF there = {}
                 THEN /\ Len(items') = Len(items) + 1
                      /\ Matching(items', W2, X) = {last}
                      /\ items'[last].quantity = tx.quantity
                      /\ items'[last].barcode =
                            <<PrefixOf(W2), CodeOf(X.categoryId), items'[last].id.t>>
                 ELSE /\ Len(items') = Len(items)
                      /\ Matching(items', W2, X) = there
                      /\ \E k \in there :
                            /\ items'[k].quantity = items[k].quantity + tx.quantity
                            /\ \A j \in there \ {k} : items'[j] = items[j]]_vars

\* 1 unit of the Drill was moved to w2, which held none, and then 1 more
C10_Witness ==
    /\ Len(items) = 3
    /\ items[1].quantity = 0
    /\ items[3].name = "Drill" /\ items[3].warehouseId = "w2" /\ items[3].quantity = 2
    /\ Len(transactions) = 2
    /\ transactions[1].id # transactions[2].id
    /\ \A k \in DOMAIN transactions :
          /\ transactions[k].type = "TRANSFER"
          /\ transactions[k].status = "APPROVED"
          /\ transactions[k].quantity = 1

\* a step of the Dashboard's reject dialog confirmed with this reason
RejectWith(reason) ==
    \E txId \in TxIds : handleFinalReject(txId, reason, TRUE)

CompleteContents ==
    {Range(initialCategories)} \cup {Range(persists[p].snap) : p \in DOMAIN persists}

\* C12: replacing a collection is atomic: while non-empty snapshots replace
\* a non-empty collection, what a reader gets is the complete old or the
\* complete new content, never an empty or partly written collection.
C12_ReplaceAtomic ==
    (loaded # <<>> /\ \A p \in DOMAIN persists : persists[p].snap # <<>>)
        => loaded[1] \in CompleteContents

\* C13: when two or more persists of the collection were issued and all
\* have completed, the stored collection is exactly the last snapshot.
C13_LastSnapshotStored ==
    (Len(persists) >= 2 /\ \A p \in DOMAIN persists : persists[p].pc = "done")
        => dbCategories = Range(persists[Len(persists)].snap)

TerminalMarks == {"SYNCED", "FAILED"}

\* cycle c completes a markSyncActionSynced or markSyncActionFailed call
MarkCompletes(c) ==
    markSyncActionSyncedPut(c, TRUE) \/ markSyncActionFailedPut(c, TRUE)

\* C14: markSyncActionSynced(id) and markSyncActionFailed(id) on an action
\* they find SYNCED or FAILED leave the action as it is (same status, same
\* retries); an id that is not in the queue changes nothing.
C14_MarkIdempotent ==
    [][\A c \in Cycles :
          /\ (MarkCompletes(c) /\ cyc[c].got[1].status \in TerminalMarks)
                => syncQueue'[cyc[c].got[1].id] = syncQueue[cyc[c].got[1].id]
          /\ ( /\ markSyncActionSyncedGet(c) \/ markSyncActionFailedGet(c)
               /\ dbGet(syncQueue, cyc[c].batch[cyc[c].i].id) = <<>> )
                => syncQueue' = syncQueue]_vars

\* C15: no action is SYNCED while an action enqueued before it is still
\* PENDING: within and across cycles, SYNCED marks go in enqueue order.
C15_SyncedInOrder ==
    \A k \in DOMAIN syncQueue :
        syncQueue[k].status = "SYNCED"
            => \A j \in 1..(k - 1) : syncQueue[j].status # "PENDING"

\* a cycle is part-way through marking a batch of three
C15_Witness ==
    /\ Len(syncQueue) = 3
    /\ syncQueue[1].status = "SYNCED"
    /\ syncQueue[2].status = "PENDING"
    /\ syncQueue[3].status = "PENDING"
    /\ \E c \in Cycles :
          /\ Ids(cyc[c].batch) = <<1, 2, 3>>
          /\ cyc[c].pc \in {"syncedGet", "syncedPut"}
          /\ cyc[c].i = 2

\* C16: a background wake signal (sync event, TRIGGER_SYNC, sw-trigger-sync)
\* starts a sync cycle as a manual trigger does: when it arrives while
\* PENDING actions exist and no cycle is running, a cycle starts and the
\* callback receives the PENDING actions.
C16_WakeStartsCycle ==
    [][( /\ onTriggerSync
         /\ PendingInEnqueueOrder # <<>>
         /\ \A c \in Cycles : ~Running(c) )
          => \E c \in Cycles :
                /\ Started(c)
                /\ Ids(cyc'[c].batch) = PendingInEnqueueOrder]_vars

\* the claim's invalid requests
InvalidStockAction(item, inbound, qty) ==
    qty <= 0 \/ (~inbound /\ qty > item.quantity)

InvalidTransfer(item, targetWhId, qty) ==
    qty <= 0 \/ qty > item.quantity \/ targetWhId = item.warehouseId

\* a request for an invalid stock action or transfer is confirmed in its modal
InvalidRequestMade ==
    \E k \in DOMAIN items, qty \in 0..MaxQty :
        \/ \E inbound \in BOOLEAN :
              /\ InvalidStockAction(items[k], inbound, qty)
              /\ StockActionConfirm(items[k], inbound, qty, TRUE)
        \/ \E targetWhId \in TargetOptions(items[k]) \cup {items[k].warehouseId} :
              /\ InvalidTransfer(items[k], targetWhId, qty)
              /\ TransferConfirm(items[k], targetWhId, qty, TRUE)

\* a transaction no valid request asks for
InvalidAsRequested(tx) ==
    \/ tx.quantity <= 0
    \/ tx.type = "TRANSFER" /\ tx.targetWarehouseId = tx.warehouseId

C18_InsufficientStockFails ==
    [][\A txId \in TxIds, rnd \in RandomValues :
          (Overdraws(txId) /\ handleApproveTransaction(txId, rnd, TRUE))
              => /\ transactions' = transactions
                 /\ items' = items
                 /\ syncQueue' = syncQueue]_vars

\* the transaction a request handler call has just appended
Requested == transactions'[Len(transactions')]

\* a request handler call: the modal's checks passed and onConfirm ran
RequestMade(type, k, targetWhId, qty) ==
    \/ /\ type = "STOCK_IN" /\ targetWhId = Undefined
       /\ handleStockInRequest(items[k], qty, TRUE)
    \/ /\ type = "STOCK_OUT" /\ targetWhId = Undefined
       /\ handleStockOutRequest(items[k], qty, TRUE)
    \/ /\ type = "TRANSFER" /\ targetWhId # Undefined
       /\ handleTransferRequest(items[k], targetWhId, qty, TRUE)

\* C19: each request handler call adds exactly one Transaction, PENDING,
\* with the given item id, source warehouse, quantity and (TRANSFER) target
\* warehouse, and leaves every Item record unchanged.
C19_RequestAddsPending ==
    [][\A type \in RequestTypes, k \in DOMAIN items, qty \in 1..MaxQty,
          targetWhId \in {w.id : w \in Range(warehouses)} \cup {Undefined} :
          RequestMade(type, k, targetWhId, qty)
              => /\ Len(transactions') = Len(transactions) + 1
                 /\ SubSeq(transactions', 1, Len(transactions)) = transactions
                 /\ Requested.type = type
                 /\ Requested.status = "PENDING"
                 /\ Requested.itemId = items[k].id
                 /\ Requested.warehouseId = items[k].warehouseId
                 /\ Requested.quantity = qty
                 /\ Requested.targetWarehouseId = targetWhId
                 /\ items' = items]_vars

\* a stock-out and a transfer were requested and nothing was approved
C19_Witness ==
    /\ Len(transactions) = 2
    /\ transactions[1].type = "STOCK_OUT"
    /\ transactions[2].type = "TRANSFER" /\ transactions[2].targetWarehouseId = "w2"
    /\ \A k \in DOMAIN transactions : transactions[k].status = "PENDING"
    /\ items = initialItems

\* no transaction has this id
NoMatch(txId) == \A k \in DOMAIN transactions : transactions[k].id # txId

\* C20: approve(txId) and reject(txId, reason) with a txId that matches no
\* transaction change nothing: transactions, items and the sync queue stay
\* as they are (and the call returns normally).
C20_UnknownIdNoOp ==
    [][\A txId \in {id \in TxIds : NoMatch(id)} :
          ( \/ \E rnd \in RandomValues : handleApproveTransaction(txId, rnd, TRUE)
            \/ \E reason \in Reasons \ {""} : handleRejectTransaction(txId, reason, TRUE) )
              => UNCHANGED <<transactions, items, syncQueue, notifications>>]_vars

\* a reject with a reason named an id no transaction has, while one is PENDING
C20_Witness ==
    /\ lastCall.op = "reject" /\ lastCall.result = "no-match"
    /\ lastCall.arg = UnknownTxId
    /\ transactions # <<>>
    /\ \A k \in DOMAIN transactions : transactions[k].status = "PENDING"
    /\ syncQueue = [k \in DOMAIN transactions |->
                      [id |-> k, type |-> transactions[k].type,
                       payload |-> transactions[k], status |-> "PENDING", retries |-> 0]]

\* the transactions with this id
WithId(txId) == {k \in DOMAIN transactions : transactions[k].id = txId}

\* txId names one transaction, and it is PENDING
NamesOnePending(txId) ==
    /\ Cardinality(WithId(txId)) = 1
    /\ \A k \in WithId(txId) : transactions[k].status = "PENDING"

\* C21: reject(txId, reason) with a non-empty reason on a PENDING
\* transaction sets its status to REJECTED and its rejectionReason to the
\* given reason, leaves every other transaction and every Item as they
\* are, and enqueues one REJECT SyncAction whose payload is {txId, reason}.
C21_RejectRecordsReason ==
    [][\A txId \in TxIds, reason \in Reasons \ {""} :
          (NamesOnePending(txId) /\ handleRejectTransaction(txId, reason, TRUE))
              => /\ \A k \in DOMAIN transactions :
                       transactions'[k] =
                          IF k \in WithId(txId)
                          THEN [transactions[k] EXCEPT !.status = "REJECTED",
                                                       !.rejectionReason = reason]
                          ELSE transactions[k]
                 /\ Len(transactions') = Len(transactions)
                 /\ items' = items
                 /\ syncQueue' = Append(syncQueue,
                                        [id |-> Len(syncQueue) + 1, type |-> "REJECT",
                                         payload |-> [txId |-> txId, reason |-> reason],
                                         status |-> "PENDING", retries |-> 0])]_vars

\* a stock-out was requested and rejected with a reason
C21_Witness ==
    /\ Len(transactions) = 1
    /\ transactions[1].type = "STOCK_OUT"
    /\ transactions[1].status = "REJECTED"
    /\ transactions[1].rejectionReason = "Hub Capacity Reached"
    /\ items = initialItems
    /\ Len(syncQueue) = 2
    /\ syncQueue[2].type = "REJECT"
    /\ syncQueue[2].payload = [txId |-> transactions[1].id,
                               reason |-> "Hub Capacity Reached"]

HasReason(tx) == tx.rejectionReason # Undefined /\ tx.rejectionReason # ""

\* C22: in every reachable state a transaction has a non-empty
\* rejectionReason if and only if its status is REJECTED: no PENDING or
\* APPROVED transaction carries one.
C22_ReasonIffRejected ==
    \A k \in DOMAIN transactions :
        HasReason(transactions[k]) <=> transactions[k].status = "REJECTED"

\* a step of cycle c after it has read its batch
StepOf(c) ==
    \/ \E ok \in BOOLEAN : onSyncSettles(c, ok)
    \/ markSyncActionSyncedGet(c)
    \/ markSyncActionSyncedPut(c, TRUE)
    \/ markSyncActionFailedGet(c)
    \/ markSyncActionFailedPut(c, TRUE)

BatchIds(c) == Range(Ids(cyc[c].batch))

\* the queue entries that are not in the batch of cycle c
Outside(c) == DOMAIN syncQueue \ BatchIds(c)

C24_SyncedTerminal ==
    [][\A k \in DOMAIN syncQueue :
          syncQueue[k].status = "SYNCED"
              => /\ syncQueue'[k].status = "SYNCED"
                 /\ syncQueue'[k].retries = syncQueue[k].retries]_vars

\* C25: transaction ids are unique: no two transactions of the collection
\* have the same id, also when two requests are issued within the same
\* clock tick, so approve(txId) and reject(txId) act on at most one.
C25_UniqueTxIds ==
    \A j, k \in DOMAIN transactions :
        transactions[j].id = transactions[k].id => j = k

\* C26: persisted state survives a restart: when the collection has been
\* persisted and the app is started again, the in-memory collection equals
\* the persisted one, whatever was persisted, an empty collection included.
C26_RestartRestores ==
    [][mountLoad => Range(memCategories') = dbCategories]_vars

\* approve(txId) acts on exactly one transaction, PENDING and of this type
ApprovesOnePending(txId, type) ==
    /\ Len(ApproveTargets(txId)) = 1
    /\ ApproveTargets(txId)[1].type = type
    /\ ApproveTargets(txId)[1].status = "PENDING"

\* C27: approving a PENDING STOCK_IN of quantity q for an existing item
\* increases that item's quantity by exactly q: the approval of a stock-in
\* never lowers the stock.
C27_StockInAdds ==
    [][\A txId \in TxIds, rnd \in RandomValues :
          (ApprovesOnePending(txId, "STOCK_IN") /\ handleApproveTransaction(txId, rnd, TRUE))
              => LET tx == ApproveTargets(txId)[1]
                 IN  \A k \in DOMAIN items :
                        items[k].id = tx.itemId
                            => items'[k].quantity = items[k].quantity + tx.quantity]_vars

RECURSIVE SumQuantity(_)
SumQuantity(its) ==
    IF its = <<>> THEN 0 ELSE Head(its).quantity + SumQuantity(Tail(its))

\* the quantity of the item at position k, 0 when there is no such item
QuantityAt(its, k) == IF k \in DOMAIN its THEN its[k].quantity ELSE 0

\* item ids name one item each
UniqueItemIds == \A j, k \in DOMAIN items : items[j].id = items[k].id => j = k

\* C28: approving a TRANSFER conserves stock: where the transaction's id
\* and the item ids name one record each, the sum of Item.quantity over all
\* items is the same before and after, the source item loses exactly
\* tx.quantity, and exactly one item, in the target warehouse, gains (or is
\* created with) exactly tx.quantity; every other item is unchanged.
C28_TransferConserves ==
    [][\A txId \in TxIds, rnd \in RandomValues :
          ( /\ ApprovesOnePending(txId, "TRANSFER")
            /\ UniqueItemIds
            /\ handleApproveTransaction(txId, rnd, TRUE) )
              => LET tx == ApproveTargets(txId)[1]
                     src == {k \in DOMAIN items : items[k].id = tx.itemId}
                     gainers == {k \in DOMAIN items' :
                                   items'[k].quantity > QuantityAt(items, k)}
                 IN  /\ SumQuantity(items') = SumQuantity(items)
                     /\ \A k \in src :
                           items'[k].quantity = items[k].quantity - tx.quantity
                     /\ Cardinality(gainers) = 1
                     /\ \A k \in gainers :
                           /\ items'[k].warehouseId = tx.targetWarehouseId
                           /\ items'[k].quantity = QuantityAt(items, k) + tx.quantity
                     /\ \A k \in DOMAIN items \ (src \cup gainers) :
                           items'[k] = items[k]]_vars

\* 2 units of the Drill were moved from w1 to w2 in one approved transfer
C28_Witness ==
    /\ Len(transactions) = 1
    /\ transactions[1].type = "TRANSFER" /\ transactions[1].status = "APPROVED"
    /\ transactions[1].quantity = 2
    /\ Len(items) = 3
    /\ items[1].quantity = 0
    /\ items[3].warehouseId = "w2" /\ items[3].quantity = 2
    /\ SumQuantity(items) = SumQuantity(initialItems)

\* C29: whenever no sync cycle is in flight, the pendingCount of
\* useOfflineSync equals the number of queue entries whose status is
\* PENDING, after any sequence of enqueues and cycles.
C29_PendingCountExact ==
    (\A c \in Cycles : ~Running(c))
        => pendingCount = Len(getPendingSyncActions(syncQueue))

\* C30: a SyncAction is marked FAILED, and its retries incremented, only in
\* a cycle whose replay callback failed: a cycle whose callback succeeded
\* writes no FAILED mark, even when one of its markSynced writes fails
\* part-way through the batch.
C30_FailedOnlyAfterCallbackFailure ==
    [][\A c \in Cycles :
          (cyc[c].cbOk /\ markSyncActionFailedPut(c, TRUE))
              => \A k \in DOMAIN syncQueue :
                    /\ syncQueue'[k].status = "FAILED" => syncQueue[k].status = "FAILED"
                    /\ syncQueue'[k].retries = syncQueue[k].retries]_vars

=============================================================================
